---- MODULE Spec2Model ----
(***************************************************************************)
(* amplitude_glue: schema inference over JSON event records, SQL template  *)
(* generation, .env loading and the `analyze` command.                     *)
(*                                                                         *)
(* Python strings are modelled as tuples of one-character strings, so that *)
(* substring tests, case folding, replacement, splitting and code point    *)
(* ordering are computed the way the code computes them.                   *)
(***************************************************************************)
EXTENDS Integers, Sequences, FiniteSets, TLC

VARIABLES
    value,          \* SpecInfer: the JSON value handed to _infer_type
    datatype,       \* SpecInfer: the label _infer_type returned
    records,        \* SpecAnalyze: the loaded records handed to the inference loop
    suggestions,    \* SpecAnalyze / Spec: the SchemaSuggestions produced
    raw_text,       \* SpecLoad / Spec: content of the input file (a token sequence)
    loaded,         \* SpecLoad: what _load_records returned
    outcome,        \* SpecLoad: how analyze_payload ended; Spec: how main ended
    schemas,        \* SpecQueries: the event schemas handed to generate_queries
    queries,        \* SpecQueries / Spec: the mapping generate_queries returned
    environ,        \* SpecEnv / Spec: os.environ
    env_file,       \* SpecEnv / Spec: lines of the .env file
    environ_log,    \* SpecEnv: os.environ before the first call and after each call
    pc,             \* Spec: the call main() makes next
    command,        \* Spec: the subcommand on the command line
    remote,         \* Spec: how the OpenAI SDK behaves in this run
    disk,           \* Spec: how the file system answers save_report
    client,         \* Spec: OpenAISchemaAssistant._client is set
    summary,        \* Spec: what summarize returned
    fs_ops,         \* Spec: the file system changes the run made, in order
    block_schema,   \* SpecSelect: the event schema handed to _select_block
    dialect,        \* SpecSelect: the warehouse name handed to _select_block and _projection
    block,          \* SpecSelect: what _select_block returned or raised
    projection,     \* SpecSelect: what _projection returned or raised for a property
    one_record,     \* SpecDetect / SpecFlatten: one loaded record
    detected,       \* SpecDetect: what _detect_event_type returned
    flat,           \* SpecFlatten: what _flatten returned
    sample,         \* SpecExample: the value handed to _example_value
    shown           \* SpecExample: what _example_value returned

inferVars   == <<value, datatype>>
analyzeVars == <<records, suggestions>>
loadVars    == <<raw_text, loaded, outcome>>
queryVars   == <<schemas, queries>>
envVars     == <<environ, env_file, environ_log>>
cliVars     == <<pc, command, remote, disk, client, summary, fs_ops>>
selectVars  == <<block_schema, dialect, block, projection>>
recordVars  == <<one_record, detected, flat>>
exampleVars == <<sample, shown>>
unitVars    == <<selectVars, recordVars, exampleVars>>
vars == <<value, datatype, records, suggestions, raw_text, loaded, outcome,
          schemas, queries, environ, env_file, environ_log, pc, command,
          remote, disk, client, summary, fs_ops,
          block_schema, dialect, block, projection, one_record, detected, flat,
          sample, shown>>

\* A result slot that no operation has filled yet.
NotRun == [t |-> "not_run", v |-> 0]
\* A call that returned x, and a call that raised the error e.
Returned(x) == [t |-> "returned", v |-> x]
Raised(e) == [t |-> "raised", v |-> e]

-----------------------------------------------------------------------------
(* Strings *)

\* Printable ASCII in code point order (the grave accent left out); Python
\* compares str by code point.
PrintableAscii ==
    <<" ","!","\"","#","<<",">>%","&","'","(",")","*","+",",","-",".","/",
      "0","1","2","3","4","5","6","7","8","9",":",";","<","=",">","?","@",
      "A","B","C","D","E","F","G","H","I","J","K","L","M","N","O","P","Q",
      "R","S","T","U","V","W","X","Y","Z","[","\\","]","^","_",
      "a","b","c","d","e","f","g","h","i","j","k","l","m","n","o","p","q",
      "r","s","t","u","v","w","x","y","z","{","|","}","~">>

Chars == {PrintableAscii[i] : i \in 1..Len(PrintableAscii)}

OrdTable == [c \in Chars |-> CHOOSE i \in 1..Len(PrintableAscii) : PrintableAscii[i] = c]

\* ord(c), up to the offset of the first printable character.
Ord(c) == OrdTable[c]

UpperCase == <<"A","B","C","D","E","F","G","H","I","J","K","L","M","N","O","P","Q",
               "R","S","T","U","V","W","X","Y","Z">>
LowerCase == <<"a","b","c","d","e","f","g","h","i","j","k","l","m","n","o","p","q",
               "r","s","t","u","v","w","x","y","z">>

LowerTable == [c \in Chars |->
                 IF \E i \in 1..Len(UpperCase) : UpperCase[i] = c
                 THEN LowerCase[CHOOSE i \in 1..Len(UpperCase) : UpperCase[i] = c]
                 ELSE c]

\* str.lower()
Lower(s) == [i \in 1..Len(s) |-> LowerTable[s[i]]]

\* str < str: the first differing character decides, a proper prefix is smaller.
StrLess(a, b) ==
    \E i \in 1..Len(b) :
        /\ \A j \in 1..(i - 1) : j <= Len(a) /\ a[j] = b[j]
        /\ \/ i = Len(a) + 1
           \/ i <= Len(a) /\ Ord(a[i]) < Ord(b[i])

StrLeq(a, b) == a = b \/ StrLess(a, b)

\* sub in s
Contains(s, sub) ==
    \E i \in 1..(Len(s) - Len(sub) + 1) : SubSeq(s, i, i + Len(sub) - 1) = sub

StartsWith(s, pre) == Len(pre) <= Len(s) /\ SubSeq(s, 1, Len(pre)) = pre
EndsWith(s, suf) == Len(suf) <= Len(s) /\ SubSeq(s, Len(s) - Len(suf) + 1, Len(s)) = suf

\* s.count(c) for a single character c
CountChar(s, c) == Cardinality({i \in 1..Len(s) : s[i] = c})

RECURSIVE ConcatAll(_)
\* "".join(parts)
ConcatAll(parts) ==
    IF parts = <<>> THEN <<>>
    ELSE IF Len(parts) = 1 THEN parts[1]
    ELSE LET h == Len(parts) \div 2
         IN ConcatAll(SubSeq(parts, 1, h)) \o ConcatAll(SubSeq(parts, h + 1, Len(parts)))

\* s.replace(c, by) for a single character c and a string by
ReplaceChar(s, c, by) ==
    ConcatAll([i \in 1..Len(s) |-> IF s[i] = c THEN by ELSE <<s[i]>>])

WhiteSpace == {" ", "\n"}

LStrip(s, cs) ==
    IF \A i \in 1..Len(s) : s[i] \in cs THEN <<>>
    ELSE SubSeq(s, CHOOSE i \in 1..Len(s) :
                      s[i] \notin cs /\ \A j \in 1..(i - 1) : s[j] \in cs, Len(s))

RStrip(s, cs) ==
    IF \A i \in 1..Len(s) : s[i] \in cs THEN <<>>
    ELSE SubSeq(s, 1, CHOOSE i \in 1..Len(s) :
                         s[i] \notin cs /\ \A j \in (i + 1)..Len(s) : s[j] \in cs)

\* str.strip(chars); str.strip() is StripChars(s, WhiteSpace)
StripChars(s, cs) == RStrip(LStrip(s, cs), cs)

RECURSIVE SplitOn(_, _)
\* s.split(c): the pieces between the occurrences of the character c
SplitOn(s, c) ==
    IF \A i \in 1..Len(s) : s[i] # c THEN <<s>>
    ELSE LET i == CHOOSE k \in 1..Len(s) : s[k] = c /\ \A j \in 1..(k - 1) : s[j] # c
         IN <<SubSeq(s, 1, i - 1)>> \o SplitOn(SubSeq(s, i + 1, Len(s)), c)

\* sep.join(parts)
JoinWith(parts, sep) ==
    ConcatAll([i \in 1..(2 * Len(parts) - 1) |->
                 IF i % 2 = 1 THEN parts[(i + 1) \div 2] ELSE sep])

RECURSIVE SortedStrings(_)
\* sorted(S) for a set S of strings
SortedStrings(S) ==
    IF S = {} THEN <<>>
    ELSE LET m == CHOOSE x \in S : \A y \in S : StrLeq(x, y)
         IN <<m>> \o SortedStrings(S \ {m})

Range(f) == {f[i] : i \in DOMAIN f}

-----------------------------------------------------------------------------
(* JSON values as json.loads returns them *)

\* A value is [t |-> its Python type, v |-> its content]: bool (BOOLEAN), int
\* (Int), float (its repr text), str (text), list (sequence of values), dict
\* (sequence of <<key, value>> pairs in insertion order, keys distinct), null.
Null       == [t |-> "null", v |-> 0]
Bool(b)    == [t |-> "bool", v |-> b]
IntV(n)    == [t |-> "int", v |-> n]
FloatV(r)  == [t |-> "float", v |-> r]
Str(s)     == [t |-> "str", v |-> s]
List(xs)   == [t |-> "list", v |-> xs]
Dict(kvs)  == [t |-> "dict", v |-> kvs]

\* isinstance(x, cls): bool is a subclass of int.
IsInstance(x, cls) ==
    \/ x.t = cls
    \/ cls = "int" /\ x.t = "bool"

\* _looks_like_timestamp
LooksLikeTimestamp(s) ==
    IF EndsWith(s, <<"Z">>) /\ Contains(s, <<"T">>) THEN TRUE
    ELSE IF CountChar(s, "-") = 2 /\ (Contains(s, <<"T">>) \/ Contains(s, <<" ">>)) THEN TRUE
    ELSE FALSE

RECURSIVE InferTypeIntFirst(_)
\* _infer_type with the int test placed before the bool test.
InferTypeIntFirst(x) ==
    IF IsInstance(x, "int") THEN <<"i","n","t","e","g","e","r">>
    ELSE IF IsInstance(x, "bool") THEN <<"b","o","o","l","e","a","n">>
    ELSE IF IsInstance(x, "float") THEN <<"d","o","u","b","l","e">>
    ELSE IF IsInstance(x, "list") THEN
        IF x.v = <<>> THEN <<"a","r","r","a","y">>
        ELSE LET inner == {InferTypeIntFirst(x.v[i]) : i \in 1..Len(x.v)}
             IN IF Cardinality(inner) = 1
                THEN <<"a","r","r","a","y","<">> \o (CHOOSE l \in inner : TRUE) \o <<">">>
                ELSE <<"a","r","r","a","y","<","m","i","x","e","d",":">> \o JoinWith(SortedStrings(inner), <<",">>) \o <<">">>
    ELSE IF IsInstance(x, "dict") THEN <<"o","b","j","e","c","t">>
    ELSE IF IsInstance(x, "str") THEN
        IF LooksLikeTimestamp(x.v) THEN <<"t","i","m","e","s","t","a","m","p">> ELSE <<"s","t","r","i","n","g">>
    ELSE <<"u","n","k","n","o","w","n">>

RECURSIVE InferType(_)
\* _infer_type
InferType(x) ==
    IF IsInstance(x, "bool") THEN <<"b","o","o","l","e","a","n">>
    ELSE IF IsInstance(x, "int") THEN <<"i","n","t","e","g","e","r">>
    ELSE IF IsInstance(x, "float") THEN <<"d","o","u","b","l","e">>
    ELSE IF IsInstance(x, "list") THEN
        IF x.v = <<>> THEN <<"a","r","r","a","y">>
        ELSE LET inner == {InferType(x.v[i]) : i \in 1..Len(x.v)}
             IN IF Cardinality(inner) = 1
                THEN <<"a","r","r","a","y","<">> \o (CHOOSE l \in inner : TRUE) \o <<">">>
                ELSE <<"a","r","r","a","y","<","m","i","x","e","d",":">> \o JoinWith(SortedStrings(inner), <<",">>) \o <<">">>
    ELSE IF IsInstance(x, "dict") THEN <<"o","b","j","e","c","t">>
    ELSE IF IsInstance(x, "str") THEN
        IF LooksLikeTimestamp(x.v) THEN <<"t","i","m","e","s","t","a","m","p">> ELSE <<"s","t","r","i","n","g">>
    ELSE <<"u","n","k","n","o","w","n">>

Digits == <<"0","1","2","3","4","5","6","7","8","9">>

RECURSIVE NatStr(_)
NatStr(n) == IF n < 10 THEN <<Digits[n + 1]>> ELSE NatStr(n \div 10) \o <<Digits[(n % 10) + 1]>>

\* str(n) for an int n
IntStr(n) == IF n < 0 THEN <<"-">> \o NatStr(0 - n) ELSE NatStr(n)

\* the body of a JSON string literal: json.dumps escapes the quote, the
\* backslash and the line feed (ensure_ascii=False keeps the rest)
JsonQuote(s) ==
    ConcatAll([i \in 1..Len(s) |->
                 CASE s[i] = "\"" -> <<"\\", "\"">>
                   [] s[i] = "\\" -> <<"\\", "\\">>
                   [] s[i] = "\n" -> <<"\\", "n">>
                   [] OTHER -> <<s[i]>>])

RECURSIVE JsonDumps(_)
\* json.dumps(x, ensure_ascii=False)
JsonDumps(x) ==
    CASE x.t = "null" -> <<"n","u","l","l">>
      [] x.t = "bool" -> IF x.v THEN <<"t","r","u","e">> ELSE <<"f","a","l","s","e">>
      [] x.t = "int" -> IntStr(x.v)
      [] x.t = "float" -> x.v
      [] x.t = "str" -> <<"\"">> \o JsonQuote(x.v) \o <<"\"">>
      [] x.t = "list" ->
            <<"[">> \o JoinWith([i \in 1..Len(x.v) |-> JsonDumps(x.v[i])], <<","," ">>) \o <<"]">>
      [] x.t = "dict" ->
            <<"{">> \o JoinWith([i \in 1..Len(x.v) |->
                          <<"\"">> \o JsonQuote(x.v[i][1]) \o <<"\"">> \o <<":"," ">>
                          \o JsonDumps(x.v[i][2])], <<","," ">>) \o <<"}">>

\* str(x) for a value that is neither a list nor a dict nor None
PyStr(x) ==
    CASE x.t = "bool" -> IF x.v THEN <<"T","r","u","e">> ELSE <<"F","a","l","s","e">>
      [] x.t = "int" -> IntStr(x.v)
      [] x.t = "float" -> x.v
      [] x.t = "str" -> x.v

\* The preview length of _example_value.
PreviewLen == 80

\* The example of a value that has none (Python's None): no string equals it.
NoExample == <<"None">>

\* The one character U+2026 that marks a cut preview.
Ellipsis == "ELLIPSIS"

\* _example_value
ExampleValue(x) ==
    IF x.t = "null" THEN NoExample
    ELSE IF IsInstance(x, "dict") \/ IsInstance(x, "list") THEN
        LET dumped == JsonDumps(x)
            preview == SubSeq(dumped, 1, IF Len(dumped) < PreviewLen THEN Len(dumped) ELSE PreviewLen)
        IN preview \o (IF Len(preview) = PreviewLen THEN <<Ellipsis>> ELSE <<>>)
    ELSE PyStr(x)

-----------------------------------------------------------------------------
(* SpecInfer: _infer_type applied to one value *)

\* Longest array among the values tried.
MaxListLen == 2

ScalarValues ==
    { Null, Bool(TRUE), Bool(FALSE), IntV(0), IntV(1), FloatV(<<"1",".","5">>),
      Str(<<"x">>), Str(<<"2","0","2","4","-","0","1","-","0","2","T","0","3",":","0","4",":","0","5","Z">>) }

BoundedSeqs(S, n) == UNION {[1..k -> S] : k \in 0..n}

\* Arrays whose elements are scalars, small arrays or a mapping.
ElementValues ==
    ScalarValues \cup { List(<<>>), List(<<Bool(TRUE)>>), List(<<IntV(1)>>),
                        Dict(<<<<<<"k">>, Bool(TRUE)>>>>) }

InferValues ==
    ScalarValues \cup {Dict(<<>>), Dict(<<<<<<"k">>, Bool(TRUE)>>>>)}
        \cup {List(xs) : xs \in BoundedSeqs(ElementValues, MaxListLen)}

InferIdle == value = Null /\ datatype = NotRun

InferInit == value \in InferValues /\ datatype = NotRun

InferStep ==
    /\ datatype = NotRun
    /\ datatype' = Returned(InferType(value))
    /\ UNCHANGED value

-----------------------------------------------------------------------------
(* Insertion-ordered dicts: sequences of <<key, value>> pairs, keys distinct *)

DictKeys(d) == [i \in 1..Len(d) |-> d[i][1]]
DictValues(d) == [i \in 1..Len(d) |-> d[i][2]]
HasKey(d, k) == \E i \in 1..Len(d) : d[i][1] = k
\* d[k] for a key that is present
DictGet(d, k) == d[CHOOSE i \in 1..Len(d) : d[i][1] = k][2]
\* d[k] = x: a present key keeps its place and takes the new value
DictSet(d, k, x) ==
    IF HasKey(d, k) THEN [i \in 1..Len(d) |-> IF d[i][1] = k THEN <<k, x>> ELSE d[i]]
    ELSE Append(d, <<k, x>>)
\* d.setdefault(k, x): a present key keeps its value
DictSetDefault(d, k, x) == IF HasKey(d, k) THEN d ELSE Append(d, <<k, x>>)

RECURSIVE DictUpdate(_, _)
\* d.update(other)
DictUpdate(d, other) ==
    IF other = <<>> THEN d
    ELSE DictUpdate(DictSet(d, other[1][1], other[1][2]), Tail(other))

RemoveAt(s, i) == SubSeq(s, 1, i - 1) \o SubSeq(s, i + 1, Len(s))

\* sorted(pairs, key=first) left out: the pairs stay in insertion order.
UnsortedByKey(ps) == ps

RECURSIVE SortedByKey(_)
\* sorted(pairs, key=first): ascending by code points, equal keys in their
\* given order (the sort is stable)
SortedByKey(ps) ==
    IF ps = <<>> THEN <<>>
    ELSE LET i == CHOOSE k \in 1..Len(ps) :
                    /\ \A j \in 1..Len(ps) : StrLeq(ps[k][1], ps[j][1])
                    /\ \A j \in 1..(k - 1) : ps[j][1] # ps[k][1]
         IN <<ps[i]>> \o SortedByKey(RemoveAt(ps, i))

-----------------------------------------------------------------------------
(* schema_inference.py *)

IGNORED_KEYS == {<<"t","i","m","e","s","t","a","m","p">>, <<"t","i","m","e">>, <<"t","s">>, <<"r","e","c","e","i","v","e","d","_","a","t">>, <<"s","e","n","t","_","a","t">>}
USER_HINT_KEYS == {<<"u","s","e","r","_","i","d">>, <<"c","u","s","t","o","m","e","r","_","i","d">>, <<"a","c","c","o","u","n","t","_","i","d">>, <<"p","r","o","f","i","l","e">>, <<"u","s","e","r">>}
GROUP_HINT_KEYS == {<<"g","r","o","u","p","_","i","d">>, <<"o","r","g","a","n","i","z","a","t","i","o","n">>, <<"t","e","a","m">>, <<"c","o","m","p","a","n","y">>, <<"g","r","o","u","p">>}
EVENT_HINT_KEYS == <<<<"e","v","e","n","t","_","t","y","p","e">>, <<"e","v","e","n","t">>, <<"a","c","t","i","o","n">>, <<"t","y","p","e">>, <<"n","a","m","e">>>>

RECURSIVE DetectFrom(_, _)
DetectFrom(record, i) ==
    IF i > Len(EVENT_HINT_KEYS) THEN <<"u","n","k","n","o","w","n","_","e","v","e","n","t">>
    ELSE LET key == EVENT_HINT_KEYS[i]
         IN IF HasKey(record, key) /\ IsInstance(DictGet(record, key), "str")
                                   /\ DictGet(record, key).v # <<>>
            THEN StripChars(DictGet(record, key).v, WhiteSpace)
            ELSE DetectFrom(record, i + 1)

\* _detect_event_type
DetectEventType(record) == DetectFrom(record, 1)

RECURSIVE FlattenInto(_, _, _)
\* the loop of _flatten over the remaining items of data, items being the
\* dict built so far
FlattenInto(items, data, parent_key) ==
    IF data = <<>> THEN items
    ELSE LET key == data[1][1]
             val == data[1][2]
             new_key == IF parent_key # <<>> THEN parent_key \o <<".">> \o key ELSE key
         IN FlattenInto(
                IF IsInstance(val, "dict")
                THEN DictUpdate(items, FlattenInto(<<>>, val.v, new_key))
                ELSE DictSet(items, new_key, val),
                Tail(data), parent_key)

\* _flatten
Flatten(data) == FlattenInto(<<>>, data, <<>>)

\* _is_user_property
IsUserProperty(key) == \E hint \in USER_HINT_KEYS : Contains(Lower(key), hint)

\* _is_group_property
IsGroupProperty(key) == \E hint \in GROUP_HINT_KEYS : Contains(Lower(key), hint)

Backtick == "GRAVE"    \* the one character U+0060

PropertySuggestion(name, dtype, example, description) ==
    [name |-> name, datatype |-> dtype, example |-> example, description |-> description]

\* The three registries of analyze_payload before the first record.
EmptyRegistries == [event_map |-> <<>>, user_props |-> <<>>, group_props |-> <<>>]

\* The branch of analyze_payload's inner loop with the group test placed
\* before the user test.
ClassifyFieldGroupFirst(reg, event_type, key, val) ==
    LET normalized_key == ReplaceChar(key, " ", <<"_">>)
        dtype == InferType(val)
        example == ExampleValue(val)
    IN IF IsGroupProperty(normalized_key) THEN
           [reg EXCEPT !.group_props = DictSetDefault(@, normalized_key,
               PropertySuggestion(normalized_key, dtype, example,
                   <<"G","r","o","u","p","/","o","r","g","a","n","i","z","a","t","i","o","n"," ","a","t","t","r","i","b","u","t","e"," ","i","n","f","e","r","r","e","d"," ","f","r","o","m"," ","p","a","y","l","o","a","d">>))]
       ELSE IF IsUserProperty(normalized_key) THEN
           [reg EXCEPT !.user_props = DictSetDefault(@, normalized_key,
               PropertySuggestion(normalized_key, dtype, example,
                   <<"U","s","e","r","-","l","e","v","e","l"," ","a","t","t","r","i","b","u","t","e"," ","i","n","f","e","r","r","e","d"," ","f","r","o","m"," ","p","a","y","l","o","a","d">>))]
       ELSE IF normalized_key \notin IGNORED_KEYS THEN
           [reg EXCEPT !.event_map = DictSet(@, event_type,
               DictSetDefault(DictGet(@, event_type), normalized_key,
                   PropertySuggestion(normalized_key, dtype, example,
                       <<"C","a","p","t","u","r","e","d"," ","f","r","o","m"," ","f","i","e","l","d"," ">> \o <<Backtick>> \o normalized_key
                           \o <<Backtick>>)))]
       ELSE reg

\* One pass of analyze_payload's inner loop: the flattened field (key, val)
\* of a record of type event_type goes to the first bucket that takes it.
ClassifyField(reg, event_type, key, val) ==
    LET normalized_key == ReplaceChar(key, " ", <<"_">>)
        dtype == InferType(val)
        example == ExampleValue(val)
    IN IF IsUserProperty(normalized_key) THEN
           [reg EXCEPT !.user_props = DictSetDefault(@, normalized_key,
               PropertySuggestion(normalized_key, dtype, example,
                   <<"U","s","e","r","-","l","e","v","e","l"," ","a","t","t","r","i","b","u","t","e"," ","i","n","f","e","r","r","e","d"," ","f","r","o","m"," ","p","a","y","l","o","a","d">>))]
       ELSE IF IsGroupProperty(normalized_key) THEN
           [reg EXCEPT !.group_props = DictSetDefault(@, normalized_key,
               PropertySuggestion(normalized_key, dtype, example,
                   <<"G","r","o","u","p","/","o","r","g","a","n","i","z","a","t","i","o","n"," ","a","t","t","r","i","b","u","t","e"," ","i","n","f","e","r","r","e","d"," ","f","r","o","m"," ","p","a","y","l","o","a","d">>))]
       ELSE IF normalized_key \notin IGNORED_KEYS THEN
           [reg EXCEPT !.event_map = DictSet(@, event_type,
               DictSetDefault(DictGet(@, event_type), normalized_key,
                   PropertySuggestion(normalized_key, dtype, example,
                       <<"C","a","p","t","u","r","e","d"," ","f","r","o","m"," ","f","i","e","l","d"," ">> \o <<Backtick>> \o normalized_key
                           \o <<Backtick>>)))]
       ELSE reg

RECURSIVE ClassifyFields(_, _, _)
ClassifyFields(reg, event_type, flattened) ==
    IF flattened = <<>> THEN reg
    ELSE ClassifyFields(
            ClassifyField(reg, event_type, flattened[1][1], flattened[1][2]),
            event_type, Tail(flattened))

\* One pass of analyze_payload's outer loop.
AnalyzeRecord(reg, record) ==
    LET event_type == DetectEventType(record)
        reg1 == IF ~HasKey(reg.event_map, event_type)
                THEN [reg EXCEPT !.event_map = Append(@, <<event_type, <<>>>>)]
                ELSE reg
    IN ClassifyFields(reg1, event_type, Flatten(record))

RECURSIVE AnalyzeLoop(_, _)
AnalyzeLoop(reg, recs) ==
    IF recs = <<>> THEN reg ELSE AnalyzeLoop(AnalyzeRecord(reg, recs[1]), Tail(recs))

IsTimestampKey(key) ==
    LET lowered == Lower(key)
    IN Contains(lowered, <<"t","i","m","e">>) \/ Contains(lowered, <<"t","i","m","e","s","t","a","m","p">>)
        \/ EndsWith(lowered, <<"_","a","t">>)

RECURSIVE TimestampKeyFrom(_, _, _)
\* the loops of _guess_timestamp_key from key k of record r on
TimestampKeyFrom(recs, r, k) ==
    IF r > Len(recs) THEN <<"t","i","m","e","s","t","a","m","p">>
    ELSE IF k > Len(recs[r]) THEN TimestampKeyFrom(recs, r + 1, 1)
    ELSE IF IsTimestampKey(recs[r][k][1]) THEN recs[r][k][1]
    ELSE TimestampKeyFrom(recs, r, k + 1)

\* _guess_timestamp_key
GuessTimestampKey(recs) == TimestampKeyFrom(recs, 1, 1)

DEDUP_KEYS == {<<"e","v","e","n","t","_","i","d">>, <<"i","d">>, <<"u","u","i","d">>}

RECURSIVE CandidateCounts(_, _, _, _)
\* the counting loops of _guess_dedup_key
CandidateCounts(counts, recs, r, k) ==
    IF r > Len(recs) THEN counts
    ELSE IF k > Len(recs[r]) THEN CandidateCounts(counts, recs, r + 1, 1)
    ELSE LET key == recs[r][k][1]
         IN CandidateCounts(
                IF Lower(key) \in DEDUP_KEYS
                THEN DictSet(counts, key, (IF HasKey(counts, key) THEN DictGet(counts, key) ELSE 0) + 1)
                ELSE counts,
                recs, r, k + 1)

\* max(d, key=d.get) taking the last of the keys that share the largest count.
MaxKeyLast(d) ==
    d[CHOOSE i \in 1..Len(d) :
        /\ \A j \in 1..Len(d) : d[j][2] <= d[i][2]
        /\ \A j \in (i + 1)..Len(d) : d[j][2] < d[i][2]][1]

\* max(d, key=d.get): the first, in iteration order, of the keys with the
\* largest count
MaxKey(d) ==
    d[CHOOSE i \in 1..Len(d) :
        /\ \A j \in 1..Len(d) : d[j][2] <= d[i][2]
        /\ \A j \in 1..(i - 1) : d[j][2] < d[i][2]][1]

\* _guess_dedup_key
GuessDedupKey(recs) ==
    LET candidate_counts == CandidateCounts(<<>>, recs, 1, 1)
    IN IF candidate_counts # <<>> THEN MaxKey(candidate_counts) ELSE <<"e","v","e","n","t","_","i","d">>

\* sorted(props.values(), key=lambda p: p.name)
SortedProps(props) ==
    DictValues(SortedByKey([i \in 1..Len(props) |-> <<props[i][2].name, props[i][2]>>]))

\* analyze_payload from the loaded, non-empty records on
AnalyzeRecords(recs) ==
    LET reg == AnalyzeLoop(EmptyRegistries, recs)
        by_type == SortedByKey(reg.event_map)
    IN [ event_schemas |->
            [i \in 1..Len(by_type) |->
                [event_type |-> by_type[i][1], properties |-> SortedProps(by_type[i][2])]],
         user_properties |-> SortedProps(reg.user_props),
         group_properties |-> SortedProps(reg.group_props),
         import_settings |->
            [ deduplication_key |-> GuessDedupKey(recs),
              timestamp_key |-> GuessTimestampKey(recs),
              delivery_strategy |-> <<"t","i","m","e","l","y">>,
              notes |-> <<"R","e","v","i","e","w"," ","m","a","p","p","i","n","g","s"," ","b","e","f","o","r","e"," ","p","r","o","d","u","c","t","i","o","n"," ","i","m","p","o","r","t",";"," ","a","d","j","u","s","t"," ","w","a","r","e","h","o","u","s","e"," ","q","u","e","r","i","e","s"," ","f","o","r"," ","c","o","l","u","m","n"," ","n","a","m","e","s",".">> ] ]

-----------------------------------------------------------------------------
(* SpecAnalyze: the inference loop applied to a list of records *)

\* Length of the input, counted in fields and record boundaries.
MaxItems == 4

\* The fields a record is built from.  Between them they give two dedup
\* candidates that differ by case, a name with a user and a group hint, a
\* space and capitals, a group name, an ignored name, an event type, and a
\* dotted key that flattens to the same path as a nested one.
Fields ==
    { <<<<"e","v","e","n","t">>, Str(<<"b">>)>>,
      <<<<"i","d">>, IntV(1)>>,
      <<<<"I","D">>, Bool(TRUE)>>,
      <<<<"T","e","a","m"," ","U","s","e","r">>, Str(<<"x">>)>>,
      <<<<"t","e","a","m">>, FloatV(<<"1",".","5">>)>>,
      <<<<"t","s">>, Str(<<"2","0","2","4","-","0","1","-","0","2","T","0","3",":","0","4",":","0","5","Z">>)>>,
      <<<<"a",".","b">>, IntV(1)>>,
      <<<<"a">>, Dict(<<<<<<"b">>, Bool(TRUE)>>>>)>> }

EndOfRecord == <<<<"\n">>, Null>>

RECURSIVE SplitRecords(_, _)
\* The records of an item stream: cur is the record being read.
SplitRecords(items, cur) ==
    IF items = <<>> THEN <<cur>>
    ELSE IF items[1] = EndOfRecord THEN <<cur>> \o SplitRecords(Tail(items), <<>>)
    ELSE SplitRecords(Tail(items), Append(cur, items[1]))

DistinctKeys(d) == \A i, j \in 1..Len(d) : d[i][1] = d[j][1] => i = j

\* Non-empty lists of records, each a mapping with distinct keys.
RecordLists ==
    { rs \in { SplitRecords(items, <<>>) :
                 items \in BoundedSeqs(Fields \cup {EndOfRecord}, MaxItems) } :
        \A r \in 1..Len(rs) : DistinctKeys(rs[r]) }

AnalyzeInit == records \in RecordLists /\ suggestions = NotRun

AnalyzeStep ==
    /\ suggestions = NotRun
    /\ suggestions' = Returned(AnalyzeRecords(records))
    /\ UNCHANGED records

AnalyzeIdle == records = <<>> /\ suggestions = NotRun

-----------------------------------------------------------------------------
(* _load_records: the input text as a token sequence *)

\* The text of the input file is a sequence of tokens: the characters " ",
\* "\n", "[", "]", ",", the scalar "7", the character "x" that starts no JSON
\* value, and "A", "B", each standing for the one-line JSON text of a mapping.
ObjectA == <<<<<<"e","v","e","n","t">>, Str(<<"b">>)>>, <<<<"i","d">>, IntV(1)>>>>
ObjectB == <<<<<<"I","D">>, Bool(TRUE)>>>>
ObjectOf(tok) == IF tok = "A" THEN ObjectA ELSE ObjectB
ObjectTokens == {"A", "B"}

ParseFailed == [ok |-> FALSE, val |-> Null, rest |-> <<>>]
Parsed(x, rest) == [ok |-> TRUE, val |-> x, rest |-> rest]

RECURSIVE ParseValue(_)
RECURSIVE ParseElements(_, _)

\* One JSON value at the head of toks, after optional whitespace.
ParseValue(toks) ==
    LET t == LStrip(toks, WhiteSpace)
    IN IF t = <<>> THEN ParseFailed
       ELSE IF Head(t) = "7" THEN Parsed(IntV(7), Tail(t))
       ELSE IF Head(t) \in ObjectTokens THEN Parsed(Dict(ObjectOf(Head(t))), Tail(t))
       ELSE IF Head(t) = "[" THEN
            LET u == LStrip(Tail(t), WhiteSpace)
            IN IF u # <<>> /\ Head(u) = "]" THEN Parsed(List(<<>>), Tail(u))
               ELSE ParseElements(u, <<>>)
       ELSE ParseFailed

\* The elements of an array after its "[" or after a ",": a value, then
\* either "," and more elements or the closing "]".
ParseElements(toks, acc) ==
    LET e == ParseValue(toks)
        u == LStrip(e.rest, WhiteSpace)
    IN IF ~e.ok \/ u = <<>> THEN ParseFailed
       ELSE IF Head(u) = "," THEN ParseElements(Tail(u), Append(acc, e.val))
       ELSE IF Head(u) = "]" THEN Parsed(List(Append(acc, e.val)), Tail(u))
       ELSE ParseFailed

\* json.loads(text): one value and nothing but whitespace after it, or a
\* JSONDecodeError (ok = FALSE)
JsonLoads(toks) ==
    LET p == ParseValue(toks)
    IN IF p.ok /\ LStrip(p.rest, WhiteSpace) = <<>> THEN p ELSE ParseFailed

\* str.splitlines(): the pieces between line breaks; a line break at the very
\* end starts no further line
SplitLines(s) ==
    LET pieces == SplitOn(s, "\n")
    IN IF pieces[Len(pieces)] = <<>> THEN SubSeq(pieces, 1, Len(pieces) - 1) ELSE pieces

RECURSIVE LineRecords(_)
\* the line loop of _load_records
LineRecords(lines) ==
    IF lines = <<>> THEN <<>>
    ELSE LET line == StripChars(lines[1], WhiteSpace)
             parsed_line == JsonLoads(line)
         IN (IF line # <<>> /\ parsed_line.ok /\ IsInstance(parsed_line.val, "dict")
             THEN <<parsed_line.val.v>> ELSE <<>>) \o LineRecords(Tail(lines))

\* [record for record in parsed if isinstance(record, dict)]
MappingElements(xs) ==
    LET keep(x) == IsInstance(x, "dict")
        kept == SelectSeq(xs, keep)
    IN [i \in 1..Len(kept) |-> kept[i].v]

\* _load_records that goes on to the line loop when the array holds no mapping.
LoadRecordsFallThrough(text) ==
    LET stripped == StripChars(text, WhiteSpace)
        parsed == JsonLoads(stripped)
    IN IF stripped = <<>> THEN <<>>
       ELSE IF parsed.ok /\ IsInstance(parsed.val, "list")
                         /\ MappingElements(parsed.val.v) # <<>>
            THEN MappingElements(parsed.val.v)
       ELSE IF parsed.ok /\ IsInstance(parsed.val, "dict") THEN <<parsed.val.v>>
       ELSE LineRecords(SplitLines(stripped))

\* _load_records
LoadRecords(text) ==
    LET stripped == StripChars(text, WhiteSpace)
        parsed == JsonLoads(stripped)
    IN IF stripped = <<>> THEN <<>>
       ELSE IF parsed.ok /\ IsInstance(parsed.val, "list") THEN MappingElements(parsed.val.v)
       ELSE IF parsed.ok /\ IsInstance(parsed.val, "dict") THEN <<parsed.val.v>>
       ELSE LineRecords(SplitLines(stripped))

NoRecordsError == "ValueError: No JSON records found"

\* analyze_payload without its test for an empty record list.
AnalyzePayloadUnchecked(text) == Returned(AnalyzeRecords(LoadRecords(text)))

\* analyze_payload
AnalyzePayload(text) ==
    LET recs == LoadRecords(text)
    IN IF recs = <<>> THEN Raised(NoRecordsError) ELSE Returned(AnalyzeRecords(recs))

-----------------------------------------------------------------------------
(* SpecLoad: _load_records and analyze_payload applied to a text *)

\* Number of lines of the input text.
MaxLines == 3

\* The lines a text is built from.
TextLines ==
    { <<>>, <<" ">>, <<"[">>, <<"]">>, <<"[", "[">>, <<"]", "]">>, <<"A">>, <<"B">>,
      <<" ", "A", ",">>, <<"7">>, <<"[", "7", ",", " ", "B", "]">>, <<"x">> }

Texts == {JoinWith(ls, <<"\n">>) : ls \in BoundedSeqs(TextLines, MaxLines)}

LoadInit == raw_text \in Texts /\ loaded = NotRun /\ outcome = NotRun

LoadStep ==
    /\ loaded = NotRun
    /\ loaded' = Returned(LoadRecords(raw_text))
    /\ UNCHANGED <<raw_text, outcome>>

AnalyzePayloadStep ==
    /\ outcome = NotRun
    /\ outcome' = AnalyzePayload(raw_text)
    /\ UNCHANGED <<raw_text, loaded>>

LoadIdle == raw_text = <<>> /\ loaded = NotRun /\ outcome = NotRun

-----------------------------------------------------------------------------
(* warehouse_queries.py *)

\* _path_parts
PathParts(name) ==
    LET pieces == SplitOn(ReplaceChar(ReplaceChar(name, "[", <<".">>), "]", <<>>), ".")
        cleaned == [i \in 1..Len(pieces) |->
                       StripChars(StripChars(pieces[i], WhiteSpace), {"'"})]
        nonEmpty(s) == s # <<>>
    IN SelectSeq(cleaned, nonEmpty)

UnsupportedWarehouse == "ValueError: Unsupported warehouse"

\* _projection
Projection(prop, warehouse) ==
    LET alias == ReplaceChar(ReplaceChar(ReplaceChar(prop.name, ".", <<"_">>), "[", <<"_">>),
                             "]", <<>>)
        path_parts == PathParts(prop.name)
        Pointer(pre, post) ==
            <<"p","a","y","l","o","a","d">> \o ConcatAll([i \in 1..Len(path_parts) |-> pre \o path_parts[i] \o post])
    IN IF warehouse = <<"s","n","o","w","f","l","a","k","e">>
       THEN Returned(Pointer(<<":","\"">>, <<"\"">>) \o <<":",":","s","t","r","i","n","g"," ","A","S"," ">> \o alias)
       ELSE IF warehouse = <<"d","a","t","a","b","r","i","c","k","s">> THEN Returned(Pointer(<<".">>, <<>>) \o <<" ","A","S"," ">> \o alias)
       ELSE IF warehouse = <<"b","i","g","q","u","e","r","y">> THEN Returned(Pointer(<<".">>, <<>>) \o <<" ","A","S"," ">> \o alias)
       ELSE IF warehouse = <<"r","e","d","s","h","i","f","t">> THEN Returned(Pointer(<<"[","'">>, <<"'","]">>) \o <<" ","A","S"," ">> \o alias)
       ELSE Raised(UnsupportedWarehouse)

\* _select_block: the error of the first projection that raises, or the text
SelectBlock(schema, warehouse) ==
    LET event_literal == ReplaceChar(schema.event_type, "'", <<"'","'">>)
        projections == [i \in 1..Len(schema.properties) |->
                           Projection(schema.properties[i], warehouse)]
    IN IF \E i \in 1..Len(projections) : projections[i].t = "raised"
       THEN Raised(UnsupportedWarehouse)
       ELSE Returned(JoinWith(
                <<<<"S","E","L","E","C","T">>, <<" "," "," "," ","'">> \o event_literal \o <<"'"," ","A","S"," ","e","v","e","n","t","_","t","y","p","e",",">>>>
                    \o [i \in 1..Len(projections) |-> <<" "," "," "," ">> \o projections[i].v \o <<",">>]
                    \o <<<<" "," "," "," ","C","U","R","R","E","N","T","_","T","I","M","E","S","T","A","M","P"," ","A","S"," ","l","o","a","d","e","d","_","a","t">>>>,
                <<"\n">>))

\* The select blocks of one warehouse joined by line breaks alone.
UnionBodyNoUnion(event_schemas, warehouse) ==
    JoinWith([i \in 1..Len(event_schemas) |-> SelectBlock(event_schemas[i], warehouse).v],
             <<"\n">>)

\* "\nUNION ALL\n".join(selects) for the select blocks of one warehouse
UnionBody(event_schemas, warehouse) ==
    JoinWith([i \in 1..Len(event_schemas) |-> SelectBlock(event_schemas[i], warehouse).v],
             <<"\n","U","N","I","O","N"," ","A","L","L","\n">>)

\* _snowflake_query
SnowflakeQuery(event_schemas) ==
    <<"-","-"," ","S","n","o","w","f","l","a","k","e"," ","e","x","a","m","p","l","e",":"," ","s","t","a","g","e","d"," ","J","S","O","N"," ","i","n","g","e","s","t","e","d"," ","i","n","t","o"," ","V","A","R","I","A","N","T"," ","c","o","l","u","m","n"," ","n","a","m","e","d"," ","p","a","y","l","o","a","d","\n">>
    \o <<"W","I","T","H"," ","s","t","a","g","e","d"," ","A","S"," ","(","\n"," "," "," "," ","S","E","L","E","C","T"," ","p","a","y","l","o","a","d",","," ","m","e","t","a","d","a","t","a",":","s","o","u","r","c","e","_","f","i","l","e",":",":","s","t","r","i","n","g"," ","A","S"," ","s","o","u","r","c","e","_","f","i","l","e","\n"," "," "," "," ","F","R","O","M"," ","@","a","m","p","l","i","t","u","d","e",".","s","t","a","g","e","/","e","v","e","n","t","s","\n",")","\n">>
    \o <<"S","E","L","E","C","T"," ","*"," ","F","R","O","M"," ","(">> \o UnionBody(event_schemas, <<"s","n","o","w","f","l","a","k","e">>) \o <<")">>

\* _databricks_query
DatabricksQuery(event_schemas) ==
    <<"-","-"," ","D","a","t","a","b","r","i","c","k","s"," ","e","x","a","m","p","l","e"," ","l","e","v","e","r","a","g","i","n","g"," ","A","u","t","o"," ","L","o","a","d","e","r","\n">>
    \o <<"W","I","T","H"," ","b","r","o","n","z","e"," ","A","S"," ","(","\n"," "," "," "," ","S","E","L","E","C","T"," ","*"," ","F","R","O","M"," ","d","e","l","t","a",".","GRAVE","/","m","n","t","/","a","m","p","l","i","t","u","d","e","/","r","a","w","GRAVE","\n",")","\n">>
    \o <<"S","E","L","E","C","T"," ","*"," ","F","R","O","M"," ","(">> \o UnionBody(event_schemas, <<"d","a","t","a","b","r","i","c","k","s">>) \o <<")">>

\* _bigquery_query
BigqueryQuery(event_schemas) ==
    <<"-","-"," ","B","i","g","Q","u","e","r","y"," ","e","x","a","m","p","l","e"," ","r","e","a","d","i","n","g"," ","f","r","o","m"," ","J","S","O","N"," ","i","n","g","e","s","t","i","o","n"," ","t","a","b","l","e","\n">>
    \o <<"W","I","T","H"," ","s","o","u","r","c","e"," ","A","S"," ","(","\n"," "," "," "," ","S","E","L","E","C","T"," ","p","a","y","l","o","a","d",","," ","_","F","I","L","E","_","N","A","M","E"," ","A","S"," ","s","o","u","r","c","e","_","f","i","l","e","\n"," "," "," "," ","F","R","O","M"," ","GRAVE","a","m","p","l","i","t","u","d","e",".","e","v","e","n","t","s","_","r","a","w","GRAVE","\n",")","\n">>
    \o <<"S","E","L","E","C","T"," ","*"," ","F","R","O","M"," ","(">> \o UnionBody(event_schemas, <<"b","i","g","q","u","e","r","y">>) \o <<")">>

\* _redshift_query
RedshiftQuery(event_schemas) ==
    <<"-","-"," ","R","e","d","s","h","i","f","t"," ","e","x","a","m","p","l","e"," ","u","s","i","n","g"," ","S","U","P","E","R"," ","c","o","l","u","m","n"," ","p","r","o","j","e","c","t","i","o","n","\n">>
    \o <<"W","I","T","H"," ","s","t","a","g","e","d"," ","A","S"," ","(","\n"," "," "," "," ","S","E","L","E","C","T"," ","p","a","y","l","o","a","d","\n"," "," "," "," ","F","R","O","M"," ","a","m","p","l","i","t","u","d","e","_","r","a","w","\n",")","\n">>
    \o <<"S","E","L","E","C","T"," ","*"," ","F","R","O","M"," ","(">> \o UnionBody(event_schemas, <<"r","e","d","s","h","i","f","t">>) \o <<")">>

\* generate_queries: the dict it returns, in insertion order
GenerateQueries(event_schemas) ==
    << <<<<"s","n","o","w","f","l","a","k","e">>, SnowflakeQuery(event_schemas)>>,
       <<<<"d","a","t","a","b","r","i","c","k","s">>, DatabricksQuery(event_schemas)>>,
       <<<<"b","i","g","q","u","e","r","y">>, BigqueryQuery(event_schemas)>>,
       <<<<"r","e","d","s","h","i","f","t">>, RedshiftQuery(event_schemas)>> >>

-----------------------------------------------------------------------------
(* SpecQueries: generate_queries applied to a list of event schemas *)

\* Number of event schemas handed to generate_queries.
MaxSchemas == 2

Prop(name) == PropertySuggestion(name, <<"s","t","r","i","n","g">>, NoExample,
                                 <<"C","a","p","t","u","r","e","d"," ","f","r","o","m"," ","f","i","e","l","d"," ">> \o <<Backtick>> \o name \o <<Backtick>>)

QueryEventTypes == {<<"a">>, <<"i","t","'","s">>, <<"p","l","a","y","b","a","c","k","_","s","t","a","r","t","e","d">>}

QueryProperties ==
    { <<>>, <<Prop(<<"i","d">>)>>, <<Prop(<<"c","a","r","t",".","c","u","r","r","e","n","c","y">>), Prop(<<"i","t","e","m","s","[","0","]",".","s","k","u">>)>> }

EventSchemas ==
    {[event_type |-> e, properties |-> ps] : e \in QueryEventTypes, ps \in QueryProperties}

QueryInit == schemas \in BoundedSeqs(EventSchemas, MaxSchemas) /\ queries = NotRun

QueryStep ==
    /\ queries = NotRun
    /\ queries' = Returned(GenerateQueries(schemas))
    /\ UNCHANGED schemas

QueryIdle == schemas = <<>> /\ queries = NotRun

-----------------------------------------------------------------------------
(* config.py *)

\* A candidate path that is no file.
NoFile == <<"None">>

\* s.split("=", 1): the text before the first "=" and the text after it
SplitFirstEquals(s) ==
    LET i == CHOOSE k \in 1..Len(s) : s[k] = "=" /\ \A j \in 1..(k - 1) : s[j] # "="
    IN <<SubSeq(s, 1, i - 1), SubSeq(s, i + 1, Len(s))>>

RECURSIVE EnvPairsOf(_)
\* the loop of _iter_env_pairs over the lines of the file
EnvPairsOf(lines) ==
    IF lines = <<>> THEN <<>>
    ELSE LET line == StripChars(lines[1], WhiteSpace)
             key == StripChars(SplitFirstEquals(line)[1], WhiteSpace)
             raw_value == SplitFirstEquals(line)[2]
             val == StripChars(StripChars(StripChars(raw_value, WhiteSpace), {"\""}), {"'"})
         IN (IF line = <<>> \/ StartsWith(line, <<"#">>) THEN <<>>
             ELSE IF ~Contains(line, <<"=">>) THEN <<>>
             ELSE IF key = <<>> THEN <<>>
             ELSE <<<<key, val>>>>) \o EnvPairsOf(Tail(lines))

\* _iter_env_pairs
IterEnvPairs(text) == EnvPairsOf(SplitLines(text))

RECURSIVE ApplyPairsOverwriting(_, _)
\* _apply_env assigning os.environ[key] = value.
ApplyPairsOverwriting(env, pairs) ==
    IF pairs = <<>> THEN env
    ELSE ApplyPairsOverwriting(DictSet(env, pairs[1][1], pairs[1][2]), Tail(pairs))

RECURSIVE ApplyPairs(_, _)
\* the loop of _apply_env: os.environ.setdefault(key, value) for each pair
ApplyPairs(env, pairs) ==
    IF pairs = <<>> THEN env
    ELSE ApplyPairs(DictSetDefault(env, pairs[1][1], pairs[1][2]), Tail(pairs))

\* _apply_env
ApplyEnv(env, text) == ApplyPairs(env, IterEnvPairs(text))

RECURSIVE LoadEnv(_, _)
\* load_env: the first candidate that is a file is applied, the rest is not
\* looked at
LoadEnv(env, candidates) ==
    IF candidates = <<>> THEN env
    ELSE IF candidates[1] # NoFile THEN ApplyEnv(env, candidates[1])
    ELSE LoadEnv(env, Tail(candidates))

-----------------------------------------------------------------------------
(* SpecEnv: load_env called on a .env file *)

\* Number of lines of the .env file.
MaxEnvLines == 2
\* Number of calls of load_env in a run.
MaxCalls == 2

EnvLines ==
    { <<"A","=","1">>, <<" ","A"," ","="," ","2"," ">>, <<"#","A","=","3">>, <<"B">>, <<"=","5">>, <<"B","=","\"","x"," ","y","\"">>, <<"B","="," ","'","z","'">>, <<"A","=">>, <<>> }

\* The .env files tried: every text of at most MaxEnvLines lines, each line
\* ended by a line break.
EnvFiles ==
    {ConcatAll([i \in 1..Len(ls) |-> ls[i] \o <<"\n">>]) : ls \in BoundedSeqs(EnvLines, MaxEnvLines)}

\* The candidate paths of _candidate_paths: the explicit path alone, or the
\* working directory's .env and then the project root's.
CandidateLists ==
    {<<f>> : f \in EnvFiles \cup {NoFile}}
        \cup {<<f, g>> : f \in {NoFile, <<"A","=","1","\n">>}, g \in {NoFile, <<"B","=","2","\n","C","=","3","\n">>}}

\* The environments tried: A, B and C each unset or set.
Environs ==
    { <<>>, <<<<<<"A">>, <<"0">>>>>>, <<<<<<"B">>, <<>>>>>>, <<<<<<"C">>, <<"9">>>>>>,
      <<<<<<"A">>, <<"0">>>>, <<<<"B">>, <<>>>>>>, <<<<<<"C">>, <<"9">>>>, <<<<"A">>, <<"0">>>>>> }

EnvIdle == environ = <<>> /\ env_file = <<>> /\ environ_log = <<>>

EnvInit ==
    /\ environ \in Environs
    /\ env_file \in CandidateLists
    /\ environ_log = <<environ>>

LoadEnvStep ==
    /\ Len(environ_log) <= MaxCalls
    /\ environ' = LoadEnv(environ, env_file)
    /\ environ_log' = Append(environ_log, environ')
    /\ UNCHANGED env_file

-----------------------------------------------------------------------------
(* openai_client.py *)

\* _offline_summary
OfflineSummary(s) ==
    LET events == JoinWith([i \in 1..Len(s.event_schemas) |-> s.event_schemas[i].event_type],
                           <<","," ">>)
    IN <<"-"," ","R","e","v","i","e","w"," ","i","n","f","e","r","r","e","d"," ","e","v","e","n","t","s",":"," ">>
       \o (IF events # <<>> THEN events ELSE <<"n","o"," ","e","v","e","n","t","s"," ","f","o","u","n","d">>)
       \o <<"\n","-"," ","M","a","p"," ">> \o IntStr(Len(s.user_properties)) \o <<" ","u","s","e","r"," ","p","r","o","p","e","r","t","i","e","s"," ","a","n","d"," ">>
       \o IntStr(Len(s.group_properties)) \o <<" ","g","r","o","u","p"," ","p","r","o","p","e","r","t","i","e","s"," ","i","n"," ","A","m","p","l","i","t","u","d","e",".">>
       \o <<"\n","-"," ","V","a","l","i","d","a","t","e"," ","i","m","p","o","r","t"," ","s","e","t","t","i","n","g","s"," ","b","e","f","o","r","e"," ","s","c","h","e","d","u","l","i","n","g"," ","w","a","r","e","h","o","u","s","e"," ","s","y","n","c",".">>

\* How the OpenAI SDK behaves in a run:
\*   no_sdk       the import of the SDK failed, OpenAI is None
\*   init_fails   OpenAI() raises
\*   text         responses.create returns a response with output_text
\*   nested       output_text is empty, output[0].content[0].text holds the text
\*   api_error    responses.create raises an OpenAIError
\*   bad_shape    the response has neither output_text nor a usable output
\*   other_error  responses.create raises an exception outside the except clause
RemoteBehaviours ==
    {"no_sdk", "init_fails", "text", "nested", "api_error", "bad_shape", "other_error"}

\* The text the service answers with.
RemoteMessage == <<" ","-"," ","L","o","o","k","s"," ","f","i","n","e",".","\n">>

RemoteError == "RuntimeError: raised by responses.create"

\* OpenAISchemaAssistant.__init__: whether self._client is set
ClientAfterInit(behaviour) == behaviour \notin {"no_sdk", "init_fails"}

\* OpenAISchemaAssistant.summarize
SummarizeResult(has_client, behaviour, s) ==
    IF ~has_client THEN Returned(OfflineSummary(s))
    ELSE IF behaviour \in {"text", "nested"}
         THEN Returned(StripChars(RemoteMessage, WhiteSpace))
    ELSE IF behaviour \in {"api_error", "bad_shape"} THEN Returned(OfflineSummary(s))
    ELSE Raised(RemoteError)

-----------------------------------------------------------------------------
(* cli.py and exporters.py: one run of main() *)

\* Number of lines of the input file of a run.
MaxCliLines == 2

CliLines == { <<"A">>, <<"B">>, <<"[">>, <<"7">> }

\* The input files of a run: a missing file, or a text.
CliFiles ==
    {NoFile} \cup {JoinWith(ls, <<"\n">>) : ls \in BoundedSeqs(CliLines, MaxCliLines)}

FileNotFound == "FileNotFoundError"

\* analyze_payload(json_path): path.read_text raises when there is no file
AnalyzeFile(file) == IF file = NoFile THEN Raised(FileNotFound) ELSE AnalyzePayload(file)

MkdirFailed == "OSError: mkdir"
WriteFailed == "OSError: write_text"

CliIdle ==
    /\ pc = "idle" /\ command = "none" /\ remote = "no_sdk" /\ disk = "ok"
    /\ client = FALSE /\ summary = NotRun /\ fs_ops = <<>>

CliInit ==
    /\ pc = "parse_args"
    /\ command \in {"analyze", "none"}
    /\ raw_text \in CliFiles
    /\ remote \in RemoteBehaviours
    /\ disk \in {"ok", "mkdir_fails", "write_fails"}
    /\ environ = <<>>
    /\ env_file \in {<<NoFile, NoFile>>, <<NoFile, <<"O","P","E","N","A","I","_","A","P","I","_","K","E","Y","=","k","\n">>>>}
    /\ client = FALSE
    /\ suggestions = NotRun /\ queries = NotRun /\ summary = NotRun /\ outcome = NotRun
    /\ fs_ops = <<>>

\* main, lines 39-50: any command but `analyze` prints the help and returns
ParseArgs ==
    /\ pc = "parse_args"
    /\ IF command # "analyze"
       THEN pc' = "done" /\ outcome' = Returned("help printed")
       ELSE pc' = "load_env" /\ UNCHANGED outcome
    /\ UNCHANGED <<unitVars, inferVars, analyzeVars, raw_text, loaded, queryVars, envVars,
                   command, remote, disk, client, summary, fs_ops>>

\* main, line 58
LoadEnvMain ==
    /\ pc = "load_env"
    /\ environ' = LoadEnv(environ, env_file)
    /\ pc' = "analyze_payload"
    /\ UNCHANGED <<unitVars, inferVars, analyzeVars, loadVars, queryVars, env_file, environ_log,
                   command, remote, disk, client, summary, fs_ops>>

\* main with the output directory created before analyze_payload is called.
AnalyzeMainMkdirFirst ==
    /\ pc = "analyze_payload"
    /\ suggestions' = AnalyzeFile(raw_text)
    /\ fs_ops' = Append(fs_ops, [op |-> "mkdir", data |-> <<>>])
    /\ IF suggestions'.t = "raised"
       THEN pc' = "failed" /\ outcome' = suggestions'
       ELSE pc' = "generate_queries" /\ UNCHANGED outcome
    /\ UNCHANGED <<unitVars, inferVars, records, raw_text, loaded, queryVars, envVars,
                   command, remote, disk, client, summary>>

\* main, line 59: an error of analyze_payload ends the run
AnalyzeMain ==
    /\ pc = "analyze_payload"
    /\ suggestions' = AnalyzeFile(raw_text)
    /\ IF suggestions'.t = "raised"
       THEN pc' = "failed" /\ outcome' = suggestions'
       ELSE pc' = "generate_queries" /\ UNCHANGED outcome
    /\ UNCHANGED <<unitVars, inferVars, records, raw_text, loaded, queryVars, envVars,
                   command, remote, disk, client, summary, fs_ops>>

\* main, line 60
GenerateMain ==
    /\ pc = "generate_queries"
    /\ queries' = Returned(GenerateQueries(suggestions.v.event_schemas))
    /\ pc' = "assistant"
    /\ UNCHANGED <<unitVars, inferVars, analyzeVars, loadVars, schemas, envVars,
                   command, remote, disk, client, summary, fs_ops>>

\* main, line 61: OpenAISchemaAssistant() loads the environment again and
\* tries to build the client
AssistantInit ==
    /\ pc = "assistant"
    /\ environ' = LoadEnv(environ, env_file)
    /\ client' = ClientAfterInit(remote)
    /\ pc' = "summarize"
    /\ UNCHANGED <<unitVars, inferVars, analyzeVars, loadVars, queryVars, env_file, environ_log,
                   command, remote, disk, summary, fs_ops>>

\* main, line 62
Summarize ==
    /\ pc = "summarize"
    /\ summary' = SummarizeResult(client, remote, suggestions.v)
    /\ IF summary'.t = "raised"
       THEN pc' = "failed" /\ outcome' = summary'
       ELSE pc' = "save_report" /\ UNCHANGED outcome
    /\ UNCHANGED <<unitVars, inferVars, analyzeVars, raw_text, loaded, queryVars, envVars,
                   command, remote, disk, client, fs_ops>>

\* main, lines 64-66, and save_report: the parent directory is created, then
\* the whole report is written in one write_text; the write is recorded with
\* what the report is built from
SaveReport ==
    /\ pc = "save_report"
    /\ IF disk = "mkdir_fails"
       THEN fs_ops' = fs_ops /\ pc' = "failed" /\ outcome' = Raised(MkdirFailed)
       ELSE IF disk = "write_fails"
       THEN fs_ops' = Append(fs_ops, [op |-> "mkdir", data |-> <<>>])
            /\ pc' = "failed" /\ outcome' = Raised(WriteFailed)
       ELSE fs_ops' = fs_ops \o << [op |-> "mkdir", data |-> <<>>],
                                  [op |-> "write_text",
                                   data |-> <<summary.v, suggestions.v, queries.v>>] >>
            /\ pc' = "done" /\ outcome' = Returned("Report saved")
    /\ UNCHANGED <<unitVars, inferVars, analyzeVars, raw_text, loaded, queryVars, envVars,
                   command, remote, disk, client, summary>>

-----------------------------------------------------------------------------
(* SpecSelect: _select_block and _projection called with any warehouse name *)

SupportedWarehouses == {<<"s","n","o","w","f","l","a","k","e">>, <<"d","a","t","a","b","r","i","c","k","s">>, <<"b","i","g","q","u","e","r","y">>, <<"r","e","d","s","h","i","f","t">>}

\* The warehouse names tried: the four of generate_queries and names outside them.
WarehouseArguments == SupportedWarehouses \cup {<<"m","y","s","q","l">>, <<"S","n","o","w","f","l","a","k","e">>, <<>>}

SelectIdle ==
    /\ block_schema = [event_type |-> <<>>, properties |-> <<>>]
    /\ dialect = <<>> /\ block = NotRun /\ projection = NotRun

SelectInit ==
    /\ block_schema \in EventSchemas
    /\ dialect \in WarehouseArguments
    /\ block = NotRun /\ projection = NotRun

\* _select_block(schema, warehouse=warehouse)
SelectBlockStep ==
    /\ block = NotRun
    /\ block' = SelectBlock(block_schema, dialect)
    /\ UNCHANGED <<block_schema, dialect, projection>>

\* _projection(prop, warehouse) for a property of the schema
ProjectionStep ==
    /\ projection = NotRun
    /\ \E i \in 1..Len(block_schema.properties) :
          projection' = Projection(block_schema.properties[i], dialect)
    /\ UNCHANGED <<block_schema, dialect, block>>

-----------------------------------------------------------------------------
(* SpecDetect: _detect_event_type applied to one record *)

RecordIdle == one_record = <<>> /\ detected = NotRun /\ flat = NotRun

\* Number of fields of the record handed to _detect_event_type.
MaxDetectFields == 2

\* The keys of the record: the five candidate keys and another one.
DetectKeys == Range(EVENT_HINT_KEYS) \cup {<<"i","d">>}

\* The values of the record: strings with and without surrounding blanks,
\* the empty string, a string of blanks, values that are no strings, and a
\* mapping that holds a candidate key one level down.
DetectValues ==
    { Str(<<"b">>), Str(<<" ","b"," ">>), Str(<<" ">>), Str(<<>>), IntV(1), Null,
      Dict(<<<<<<"e","v","e","n","t">>, Str(<<"n">>)>>>>) }

DetectRecords ==
    { r \in BoundedSeqs(DetectKeys \X DetectValues, MaxDetectFields) : DistinctKeys(r) }

DetectInit == one_record \in DetectRecords /\ detected = NotRun /\ flat = NotRun

DetectStep ==
    /\ detected = NotRun
    /\ detected' = Returned(DetectEventType(one_record))
    /\ UNCHANGED <<one_record, flat>>

-----------------------------------------------------------------------------
(* SpecFlatten: _flatten applied to one record *)

\* Number of top-level fields of the record handed to _flatten.
MaxFlattenFields == 2

\* Keys with and without the separator, and the empty key.
FlattenKeys == {<<"a">>, <<"b">>, <<"a",".","b">>, <<>>}

\* Leaves, and mappings one and two levels deep, one of them empty and one
\* with a key that holds the separator.
FlattenValues ==
    { IntV(1), Bool(TRUE),
      Dict(<<>>),
      Dict(<<<<<<"b">>, Str(<<"x">>)>>>>),
      Dict(<<<<<<"b">>, Dict(<<<<<<"c">>, IntV(2)>>>>)>>>>),
      Dict(<<<<<<"b",".","c">>, Null>>, <<<<"b">>, IntV(3)>>>>) }

FlattenRecords ==
    { r \in BoundedSeqs(FlattenKeys \X FlattenValues, MaxFlattenFields) : DistinctKeys(r) }

FlattenInit == one_record \in FlattenRecords /\ detected = NotRun /\ flat = NotRun

FlattenStep ==
    /\ flat = NotRun
    /\ flat' = Returned(Flatten(one_record))
    /\ UNCHANGED <<one_record, detected>>

-----------------------------------------------------------------------------
(* SpecExample: _example_value applied to one value *)

ExampleIdle == sample = Null /\ shown = NotRun

\* Longest string among the values tried: the serializations of the arrays
\* and mappings holding it run from a few characters to more than PreviewLen.
MaxStringLen == 82

\* The string of n letters
Letters(n) == [i \in 1..n |-> "a"]

\* A string on its own, in an array and in a mapping, for every length, and
\* the scalars.
ExampleSamples ==
    ScalarValues
    \cup { Str(Letters(n)) : n \in 0..MaxStringLen }
    \cup { List(<<Str(Letters(n))>>) : n \in 0..MaxStringLen }
    \cup { Dict(<<<<<<"k">>, Str(Letters(n))>>>>) : n \in 0..MaxStringLen }
    \cup { List(<<>>), Dict(<<>>) }

ExampleInit == sample \in ExampleSamples /\ shown = NotRun

ExampleStep ==
    /\ shown = NotRun
    /\ shown' = Returned(ExampleValue(sample))
    /\ UNCHANGED sample

-----------------------------------------------------------------------------
\* The variables of the specifications of single functions, at rest.
UnitIdle == SelectIdle /\ RecordIdle /\ ExampleIdle

-----------------------------------------------------------------------------
(* Specifications *)


\* _infer_type on every value of InferValues.
SpecInferInit == InferInit /\ AnalyzeIdle /\ LoadIdle /\ QueryIdle /\ EnvIdle /\ CliIdle /\ UnitIdle
SpecInferNext ==
    InferStep /\ UNCHANGED <<analyzeVars, loadVars, queryVars, envVars, cliVars, unitVars>>
SpecInfer == SpecInferInit /\ [][SpecInferNext]_vars

\* The inference loop of analyze_payload on every list of RecordLists.
SpecAnalyzeInit == AnalyzeInit /\ InferIdle /\ LoadIdle /\ QueryIdle /\ EnvIdle /\ CliIdle /\ UnitIdle
SpecAnalyzeNext ==
    AnalyzeStep /\ UNCHANGED <<inferVars, loadVars, queryVars, envVars, cliVars, unitVars>>
SpecAnalyze == SpecAnalyzeInit /\ [][SpecAnalyzeNext]_vars

\* _load_records and analyze_payload on every text of Texts.
SpecLoadInit == LoadInit /\ InferIdle /\ AnalyzeIdle /\ QueryIdle /\ EnvIdle /\ CliIdle /\ UnitIdle
SpecLoadNext ==
    \/ LoadStep /\ UNCHANGED <<inferVars, analyzeVars, queryVars, envVars, cliVars, unitVars>>
    \/ AnalyzePayloadStep /\ UNCHANGED <<inferVars, analyzeVars, queryVars, envVars, cliVars, unitVars>>
SpecLoad == SpecLoadInit /\ [][SpecLoadNext]_vars

\* generate_queries on every list of at most MaxSchemas event schemas.
SpecQueriesInit == QueryInit /\ InferIdle /\ AnalyzeIdle /\ LoadIdle /\ EnvIdle /\ CliIdle /\ UnitIdle
SpecQueriesNext ==
    QueryStep /\ UNCHANGED <<inferVars, analyzeVars, loadVars, envVars, cliVars, unitVars>>
SpecQueries == SpecQueriesInit /\ [][SpecQueriesNext]_vars

\* load_env called up to MaxCalls times on every file and environment tried.
SpecEnvInit == EnvInit /\ InferIdle /\ AnalyzeIdle /\ LoadIdle /\ QueryIdle /\ CliIdle /\ UnitIdle
SpecEnvNext ==
    LoadEnvStep /\ UNCHANGED <<inferVars, analyzeVars, loadVars, queryVars, cliVars, unitVars>>
SpecEnv == SpecEnvInit /\ [][SpecEnvNext]_vars

\* _select_block and _projection on every event schema and dialect name tried.
SpecSelectInit ==
    /\ SelectInit /\ RecordIdle /\ ExampleIdle
    /\ InferIdle /\ AnalyzeIdle /\ LoadIdle /\ QueryIdle /\ EnvIdle /\ CliIdle
SpecSelectNext ==
    \/ SelectBlockStep /\ UNCHANGED <<inferVars, analyzeVars, loadVars, queryVars, envVars,
                                      cliVars, recordVars, exampleVars>>
    \/ ProjectionStep /\ UNCHANGED <<inferVars, analyzeVars, loadVars, queryVars, envVars,
                                     cliVars, recordVars, exampleVars>>
SpecSelect == SpecSelectInit /\ [][SpecSelectNext]_vars

\* _detect_event_type on every record of DetectRecords.
SpecDetectInit ==
    /\ DetectInit /\ SelectIdle /\ ExampleIdle
    /\ InferIdle /\ AnalyzeIdle /\ LoadIdle /\ QueryIdle /\ EnvIdle /\ CliIdle
SpecDetectNext ==
    DetectStep /\ UNCHANGED <<inferVars, analyzeVars, loadVars, queryVars, envVars,
                              cliVars, selectVars, exampleVars>>
SpecDetect == SpecDetectInit /\ [][SpecDetectNext]_vars

\* _example_value on every value of ExampleSamples.
SpecExampleInit ==
    /\ ExampleInit /\ SelectIdle /\ RecordIdle
    /\ InferIdle /\ AnalyzeIdle /\ LoadIdle /\ QueryIdle /\ EnvIdle /\ CliIdle
SpecExampleNext ==
    ExampleStep /\ UNCHANGED <<inferVars, analyzeVars, loadVars, queryVars, envVars,
                               cliVars, selectVars, recordVars>>
SpecExample == SpecExampleInit /\ [][SpecExampleNext]_vars

\* _flatten on every record of FlattenRecords.
SpecFlattenInit ==
    /\ FlattenInit /\ SelectIdle /\ ExampleIdle
    /\ InferIdle /\ AnalyzeIdle /\ LoadIdle /\ QueryIdle /\ EnvIdle /\ CliIdle
SpecFlattenNext ==
    FlattenStep /\ UNCHANGED <<inferVars, analyzeVars, loadVars, queryVars, envVars,
                               cliVars, selectVars, exampleVars>>
SpecFlatten == SpecFlattenInit /\ [][SpecFlattenNext]_vars

\* One run of main(): every input text, command, SDK behaviour and file
\* system behaviour tried.
Init == CliInit /\ InferIdle /\ records = <<>> /\ loaded = NotRun /\ schemas = <<>>
            /\ environ_log = <<>> /\ UnitIdle
Next ==
    \/ ParseArgs
    \/ LoadEnvMain
    \/ AnalyzeMain
    \/ GenerateMain
    \/ AssistantInit
    \/ Summarize
    \/ SaveReport
Spec == Init /\ [][Next]_vars

-----------------------------------------------------------------------------
(* Claims *)

IsBool(x) == x.t = "bool"
IsPlainInt(x) == x.t = "int"

RECURSIVE HasNoInt(_)
\* No integer occurs in x, at any depth of its arrays.
HasNoInt(x) ==
    IF x.t = "list" THEN \A i \in 1..Len(x.v) : HasNoInt(x.v[i]) ELSE x.t # "int"

\* C3: a boolean value is labelled `boolean`, an array of booleans
\* `array<boolean>`, an array mixing booleans and integers
\* `array<mixed:boolean,integer>`, and a value that holds no integer is never
\* given a label mentioning `integer`.
C3_BooleanNeverInteger ==
    datatype # NotRun =>
        /\ IsBool(value) => datatype.v = <<"b","o","o","l","e","a","n">>
        /\ (value.t = "list" /\ value.v # <<>> /\ \A i \in 1..Len(value.v) : IsBool(value.v[i]))
              => datatype.v = <<"a","r","r","a","y","<","b","o","o","l","e","a","n",">">>
        /\ (/\ value.t = "list"
            /\ \A i \in 1..Len(value.v) : IsBool(value.v[i]) \/ IsPlainInt(value.v[i])
            /\ \E i \in 1..Len(value.v) : IsBool(value.v[i])
            /\ \E i \in 1..Len(value.v) : IsPlainInt(value.v[i]))
              => datatype.v = <<"a","r","r","a","y","<","m","i","x","e","d",":","b","o","o","l","e","a","n",",","i","n","t","e","g","e","r",">">>
        /\ HasNoInt(value) => ~Contains(datatype.v, <<"i","n","t","e","g","e","r">>)

\* An array mixing a boolean and an integer has been labelled.
C3_Witness ==
    /\ value = List(<<Bool(TRUE), IntV(1)>>)
    /\ datatype = Returned(<<"a","r","r","a","y","<","m","i","x","e","d",":","b","o","o","l","e","a","n",",","i","n","t","e","g","e","r",">">>)

-----------------------------------------------------------------------------
(* Claims about the inference loop, read off the returned SchemaSuggestions *)

Names(props) == [i \in 1..Len(props) |-> props[i].name]

StrictlyAscending(names) ==
    \A i, j \in 1..Len(names) : i < j => StrLess(names[i], names[j])

EventTypes(s) == [i \in 1..Len(s.event_schemas) |-> s.event_schemas[i].event_type]

\* C1: the event schemas are strictly ascending by event_type, and in every
\* bucket (each schema's properties, the user and the group properties) the
\* property names are strictly ascending, hence pairwise distinct.
C1_SortedAndDistinct ==
    suggestions # NotRun =>
        LET s == suggestions.v
        IN /\ StrictlyAscending(EventTypes(s))
           /\ \A i \in 1..Len(s.event_schemas) :
                 StrictlyAscending(Names(s.event_schemas[i].properties))
           /\ StrictlyAscending(Names(s.user_properties))
           /\ StrictlyAscending(Names(s.group_properties))

\* Two event types first met in descending order, and a schema whose two
\* properties were first met in descending order.
C1_Witness ==
    /\ suggestions # NotRun
    /\ Len(records) = 2
    /\ DictKeys(records[1]) = <<<<"i","d">>, <<"I","D">>>>
    /\ DictKeys(records[2]) = <<<<"e","v","e","n","t">>>>
    /\ EventTypes(suggestions.v) = <<<<"b">>, <<"u","n","k","n","o","w","n","_","e","v","e","n","t">>>>
    /\ Names(suggestions.v.event_schemas[2].properties) = <<<<"I","D">>, <<"i","d">>>>

RECURSIVE LeafList(_, _)
\* The leaves of a record depth first, in key order, each with its dotted
\* path; a path met twice is listed twice.
LeafList(data, parent_key) ==
    IF data = <<>> THEN <<>>
    ELSE LET key == data[1][1]
             val == data[1][2]
             path == IF parent_key # <<>> THEN parent_key \o <<".">> \o key ELSE key
         IN (IF val.t = "dict" THEN LeafList(val.v, path) ELSE <<<<path, val>>>>)
                \o LeafList(Tail(data), parent_key)

Normalized(path) == [i \in 1..Len(path) |-> IF path[i] = " " THEN "_" ELSE path[i]]

HasUserHint(name) ==
    \E hint \in {<<"u","s","e","r","_","i","d">>, <<"c","u","s","t","o","m","e","r","_","i","d">>, <<"a","c","c","o","u","n","t","_","i","d">>, <<"p","r","o","f","i","l","e">>, <<"u","s","e","r">>} :
        Contains(Lower(name), hint)
HasGroupHint(name) ==
    \E hint \in {<<"g","r","o","u","p","_","i","d">>, <<"o","r","g","a","n","i","z","a","t","i","o","n">>, <<"t","e","a","m">>, <<"c","o","m","p","a","n","y">>, <<"g","r","o","u","p">>} :
        Contains(Lower(name), hint)
IsIgnoredName(name) ==
    name \in {<<"t","i","m","e","s","t","a","m","p">>, <<"t","i","m","e">>, <<"t","s">>, <<"r","e","c","e","i","v","e","d","_","a","t">>, <<"s","e","n","t","_","a","t">>}

\* The bucket kind the precedence user > group > ignored > event gives a name.
BucketOf(name) ==
    IF HasUserHint(name) THEN "user"
    ELSE IF HasGroupHint(name) THEN "group"
    ELSE IF IsIgnoredName(name) THEN "ignored"
    ELSE "event"

EventNames(s) ==
    UNION {Range(Names(s.event_schemas[i].properties)) : i \in 1..Len(s.event_schemas)}

\* The normalized names of the leaves of all records.
LeafNames(recs) ==
    UNION {{Normalized(l[1]) : l \in Range(LeafList(recs[r], <<>>))} : r \in 1..Len(recs)}

\* C4: every field lands in exactly the bucket kind that the precedence
\* user > group > ignored > event gives its normalized name: a name with a
\* user hint is only among the user properties, a name with a group hint and
\* no user hint only among the group properties, an ignored name nowhere, and
\* no name is in two bucket kinds.
C4_ClassificationPrecedence ==
    suggestions # NotRun =>
        LET s == suggestions.v
            user == Range(Names(s.user_properties))
            group == Range(Names(s.group_properties))
            event == EventNames(s)
        IN /\ \A n \in LeafNames(records) :
                 /\ n \in user <=> BucketOf(n) = "user"
                 /\ n \in group <=> BucketOf(n) = "group"
                 /\ n \in event <=> BucketOf(n) = "event"
           /\ user \cup group \cup event \subseteq LeafNames(records)
           /\ user \cap group = {} /\ user \cap event = {} /\ group \cap event = {}

\* A name holding both a user and a group hint went to the user properties,
\* next to a group property and an ignored field.
C4_Witness ==
    /\ suggestions # NotRun
    /\ DictKeys(records[1]) = <<<<"T","e","a","m"," ","U","s","e","r">>, <<"t","e","a","m">>, <<"t","s">>, <<"i","d">>>>
    /\ Names(suggestions.v.user_properties) = <<<<"T","e","a","m","_","U","s","e","r">>>>
    /\ Names(suggestions.v.group_properties) = <<<<"t","e","a","m">>>>
    /\ EventNames(suggestions.v) = {<<"i","d">>}

\* All leaves of the records of event type etype (of all records when etype
\* is <<>>), in input order.
RECURSIVE LeavesOf(_, _)
LeavesOf(recs, etype) ==
    IF recs = <<>> THEN <<>>
    ELSE (IF etype = <<>> \/ DetectEventType(recs[1]) = etype
          THEN LeafList(recs[1], <<>>) ELSE <<>>) \o LeavesOf(Tail(recs), etype)

\* The first leaf of the list whose normalized name is name.
FirstLeaf(leaves, name) ==
    leaves[CHOOSE i \in 1..Len(leaves) :
              /\ Normalized(leaves[i][1]) = name
              /\ \A j \in 1..(i - 1) : Normalized(leaves[j][1]) # name]

FirstSeen(props, leaves) ==
    \A i \in 1..Len(props) :
        /\ \E l \in Range(leaves) : Normalized(l[1]) = props[i].name
        /\ props[i].datatype = InferType(FirstLeaf(leaves, props[i].name)[2])
        /\ props[i].example = ExampleValue(FirstLeaf(leaves, props[i].name)[2])

\* C5: every property suggestion carries the datatype and the example of the
\* first leaf with its normalized name (records in input order, keys in key
\* order, nested mappings depth first), and the properties of an event schema
\* are the event-property names of all records of its type.
C5_FirstSeenWins ==
    suggestions # NotRun =>
        LET s == suggestions.v
        IN /\ FirstSeen(s.user_properties, LeavesOf(records, <<>>))
           /\ FirstSeen(s.group_properties, LeavesOf(records, <<>>))
           /\ \A i \in 1..Len(s.event_schemas) :
                 LET leaves == LeavesOf(records, s.event_schemas[i].event_type)
                 IN /\ FirstSeen(s.event_schemas[i].properties, leaves)
                    /\ Range(Names(s.event_schemas[i].properties)) =
                          {Normalized(l[1]) : l \in {l \in Range(leaves) :
                                                      BucketOf(Normalized(l[1])) = "event"}}

\* The top-level keys whose lower-cased form is a dedup key name.
Candidates(recs) ==
    {k \in UNION {Range(DictKeys(recs[r])) : r \in 1..Len(recs)} :
        Lower(k) \in {<<"e","v","e","n","t","_","i","d">>, <<"i","d">>, <<"u","u","i","d">>}}

Occurrences(recs, k) == Cardinality({r \in 1..Len(recs) : HasKey(recs[r], k)})

\* Where k is first met: <<record index, key index>>.
FirstMet(recs, k) ==
    LET r == CHOOSE r \in 1..Len(recs) :
                 HasKey(recs[r], k) /\ \A q \in 1..(r - 1) : ~HasKey(recs[q], k)
    IN <<r, CHOOSE i \in 1..Len(recs[r]) : recs[r][i][1] = k>>

MetBefore(p, q) == p[1] < q[1] \/ (p[1] = q[1] /\ p[2] < q[2])

\* C7: the deduplication key is `event_id` when no record has a candidate
\* key; otherwise it is a candidate key that occurs in the largest number of
\* records, and of those the one met first in input order.
C7_DedupKeyGuess ==
    suggestions # NotRun =>
        LET key == suggestions.v.import_settings.deduplication_key
            cands == Candidates(records)
        IN IF cands = {} THEN key = <<"e","v","e","n","t","_","i","d">>
           ELSE /\ key \in cands
                /\ \A k \in cands : Occurrences(records, k) <= Occurrences(records, key)
                /\ \A k \in cands \ {key} :
                      Occurrences(records, k) = Occurrences(records, key)
                          => MetBefore(FirstMet(records, key), FirstMet(records, k))

\* Two candidates tie and the one met first was returned.
C7_Witness ==
    /\ suggestions # NotRun
    /\ Len(records) = 2
    /\ DictKeys(records[1]) = <<<<"I","D">>>>
    /\ DictKeys(records[2]) = <<<<"i","d">>>>
    /\ suggestions.v.import_settings.deduplication_key = <<"I","D">>

-----------------------------------------------------------------------------
(* Claims about the record loader *)

StrippedText == StripChars(raw_text, WhiteSpace)
WholeParse == JsonLoads(StrippedText)

\* The mappings among the elements of the whole text read as one JSON array,
\* the one mapping when the whole text is one, nothing otherwise.
WholeTextRecords ==
    IF ~WholeParse.ok THEN <<>>
    ELSE IF WholeParse.val.t = "dict" THEN <<WholeParse.val.v>>
    ELSE IF WholeParse.val.t = "list"
         THEN LET isMapping(x) == x.t = "dict"
                  kept == SelectSeq(WholeParse.val.v, isMapping)
              IN [i \in 1..Len(kept) |-> kept[i].v]
    ELSE <<>>

\* The mappings that non-blank lines of the text parse to on their own.
RECURSIVE MappingLines(_)
MappingLines(lines) ==
    IF lines = <<>> THEN <<>>
    ELSE LET p == JsonLoads(lines[1])
         IN (IF p.ok /\ p.val.t = "dict" THEN <<p.val.v>> ELSE <<>>)
                \o MappingLines(Tail(lines))

LineDelimitedRecords == MappingLines(SplitLines(StrippedText))

\* The inputs C2 lists: blank text, a JSON scalar, a JSON array without a
\* mapping element, or a text that is no JSON value and has no line that
\* parses to a mapping.
ZeroMappingRecords ==
    \/ StrippedText = <<>>
    \/ WholeParse.ok /\ WholeParse.val.t \notin {"list", "dict"}
    \/ WholeParse.ok /\ WholeParse.val.t = "list" /\ WholeTextRecords = <<>>
    \/ ~WholeParse.ok /\ LineDelimitedRecords = <<>>

\* C2: on an input with zero parsable mapping records analyze_payload raises
\* the no-records error and returns no SchemaSuggestions.
C2_NoRecordsFails ==
    (outcome # NotRun /\ ZeroMappingRecords) => outcome = Raised(NoRecordsError)

\* analyze_payload raised on a three-line JSON array holding only a scalar.
C2_Witness ==
    /\ raw_text = <<"[", "\n", "7", "\n", "]">>
    /\ outcome = Raised(NoRecordsError)

\* C6 as stated: the loader returns the whole-text records when there are
\* any, and the line-delimited records otherwise.
C6_FirstYieldingStrategy ==
    loaded # NotRun =>
        loaded.v = IF WholeTextRecords # <<>> THEN WholeTextRecords
                   ELSE LineDelimitedRecords

\* C6 amended: a whole text that parses as a JSON array or mapping decides
\* the result alone (an array without mapping elements gives the empty
\* sequence); the line-delimited records are returned only when the whole
\* text is no JSON value or is a scalar.
C6_LoaderStrategies ==
    loaded # NotRun =>
        loaded.v = IF WholeParse.ok /\ WholeParse.val.t \in {"list", "dict"}
                   THEN WholeTextRecords
                   ELSE LineDelimitedRecords

\* The loader returned nothing for an array without mapping elements one of
\* whose lines is a mapping.
C6_Witness ==
    /\ raw_text = <<"[", "[", "\n", "A", "\n", "]", "]">>
    /\ loaded = Returned(<<>>)

-----------------------------------------------------------------------------
(* Claims about generate_queries *)

QueryOf(name) == DictGet(queries.v, name)

WarehouseNames == {<<"s","n","o","w","f","l","a","k","e">>, <<"d","a","t","a","b","r","i","c","k","s">>, <<"b","i","g","q","u","e","r","y">>, <<"r","e","d","s","h","i","f","t">>}

\* C8 as stated: for a single event type E the mapping has exactly the four
\* warehouse keys, the bigquery query contains `UNION ALL` and the snowflake
\* query contains E.
C8_OneEventType ==
    (queries # NotRun /\ Len(schemas) = 1) =>
        /\ Range(DictKeys(queries.v)) = WarehouseNames /\ Len(queries.v) = 4
        /\ Contains(QueryOf(<<"b","i","g","q","u","e","r","y">>), <<"U","N","I","O","N"," ","A","L","L">>)
        /\ Contains(QueryOf(<<"s","n","o","w","f","l","a","k","e">>), schemas[1].event_type)

Quoted(event_type) ==
    ConcatAll([i \in 1..Len(event_type) |->
                 IF event_type[i] = "'" THEN <<"'", "'">> ELSE <<event_type[i]>>])

\* C8 amended: the mapping has exactly the four warehouse keys; the bigquery
\* query contains `UNION ALL` when there are two or more event schemas, and
\* with a single event schema only if its event type or one of its property
\* names does; the snowflake query contains every event type, written with
\* each single quote doubled.
C8_QueriesShape ==
    queries # NotRun =>
        /\ Range(DictKeys(queries.v)) = WarehouseNames /\ Len(queries.v) = 4
        /\ Len(schemas) >= 2 => Contains(QueryOf(<<"b","i","g","q","u","e","r","y">>), <<"U","N","I","O","N"," ","A","L","L">>)
        /\ (Len(schemas) = 1 /\ Contains(QueryOf(<<"b","i","g","q","u","e","r","y">>), <<"U","N","I","O","N"," ","A","L","L">>)) =>
              \/ Contains(schemas[1].event_type, <<"U","N","I","O","N"," ","A","L","L">>)
              \/ \E i \in 1..Len(schemas[1].properties) :
                    Contains(schemas[1].properties[i].name, <<"U","N","I","O","N"," ","A","L","L">>)
        /\ \A i \in 1..Len(schemas) :
              Contains(QueryOf(<<"s","n","o","w","f","l","a","k","e">>), Quoted(schemas[i].event_type))

\* Queries for two event types, one of them holding a quote.
C8_Witness ==
    /\ queries # NotRun
    /\ Len(schemas) = 2
    /\ schemas[1].event_type = <<"i","t","'","s">>
    /\ schemas[2].event_type = <<"p","l","a","y","b","a","c","k","_","s","t","a","r","t","e","d">>
    /\ Contains(QueryOf(<<"b","i","g","q","u","e","r","y">>), <<"U","N","I","O","N"," ","A","L","L">>)
    /\ ~Contains(QueryOf(<<"s","n","o","w","f","l","a","k","e">>), <<"i","t","'","s">>)

-----------------------------------------------------------------------------
(* Claims about load_env *)

\* The pairs of the file load_env reads: the first candidate that is a file.
FilePairs ==
    IF \A i \in 1..Len(env_file) : env_file[i] = NoFile THEN <<>>
    ELSE IterEnvPairs(env_file[CHOOSE i \in 1..Len(env_file) :
                                  env_file[i] # NoFile /\ \A j \in 1..(i - 1) : env_file[j] = NoFile])

\* The value of the first line of the file that defines key.
FileValue(key) ==
    FilePairs[CHOOSE i \in 1..Len(FilePairs) :
                 FilePairs[i][1] = key /\ \A j \in 1..(i - 1) : FilePairs[j][1] # key][2]

\* C9: after load_env every variable that was set keeps its value, every key
\* the file defines that was unset holds the file's value for it (that of its
\* first definition), no other variable appears, and a second call leaves
\* os.environ as the first call left it.
C9_SetIfAbsent ==
    Len(environ_log) >= 2 =>
        LET before == environ_log[1]
            after == environ_log[2]
            fileKeys == Range(DictKeys(FilePairs))
        IN /\ \A k \in Range(DictKeys(before)) :
                 HasKey(after, k) /\ DictGet(after, k) = DictGet(before, k)
           /\ \A k \in fileKeys \ Range(DictKeys(before)) :
                 HasKey(after, k) /\ DictGet(after, k) = FileValue(k)
           /\ Range(DictKeys(after)) \subseteq Range(DictKeys(before)) \cup fileKeys
           /\ Len(environ_log) >= 3 => environ_log[3] = after

\* load_env ran twice on a file that defines A, which was set, and B, which
\* was not.
C9_Witness ==
    /\ Len(environ_log) = 3
    /\ environ_log[1] = <<<<<<"A">>, <<"0">>>>>>
    /\ env_file = <<<<"A","=","1","\n","B","=","\"","x"," ","y","\"","\n">>>>
    /\ environ = <<<<<<"A">>, <<"0">>>>, <<<<"B">>, <<"x"," ","y">>>>>>

-----------------------------------------------------------------------------
(* Claims about the analyze run *)

ReportWritten == \E i \in 1..Len(fs_ops) : fs_ops[i].op = "write_text"

\* C10: the run touches the file system only after analyze_payload,
\* generate_queries and summarize have returned, and what it writes is the
\* whole report; when analyze_payload raises, the run has ended with that
\* error, nothing more can happen, and no directory was created and no file
\* written.
C10_NoReportUnlessAllSucceeded ==
    /\ fs_ops # <<>> =>
          suggestions.t = "returned" /\ queries.t = "returned" /\ summary.t = "returned"
    /\ \A i \in 1..Len(fs_ops) :
          fs_ops[i].op = "write_text" => fs_ops[i].data = <<summary.v, suggestions.v, queries.v>>
    /\ ReportWritten => pc = "done"
    /\ suggestions.t = "raised" =>
          pc = "failed" /\ outcome = suggestions /\ fs_ops = <<>> /\ ~ENABLED Next

\* The analyze command ended with the no-records error on a file holding a
\* scalar, and nothing was written.
C10_Witness ==
    /\ command = "analyze"
    /\ raw_text = <<"7">>
    /\ pc = "failed"
    /\ outcome = Raised(NoRecordsError)
    /\ fs_ops = <<>>

-----------------------------------------------------------------------------
(* Claims about OpenAISchemaAssistant *)

\* C11: summarize never raises: once it has run, the CLI holds a summary
\* string, and that string is the offline summary whenever there is no
\* client, the remote call raised, or the response had no usable shape.
C11_SummarizerFailuresRecovered ==
    /\ summary.t # "raised"
    /\ pc = "failed" => outcome # Raised(RemoteError)
    /\ (summary.t = "returned" /\ remote \notin {"text", "nested"}) =>
          summary.v = OfflineSummary(suggestions.v)

-----------------------------------------------------------------------------
(* Claims about _detect_event_type *)

\* The candidate keys, by position in EVENT_HINT_KEYS, that the record holds
\* at its top level with a non-empty string value.
Detectable(r) ==
    { i \in 1..Len(EVENT_HINT_KEYS) :
        /\ HasKey(r, EVENT_HINT_KEYS[i])
        /\ DictGet(r, EVENT_HINT_KEYS[i]).t = "str"
        /\ DictGet(r, EVENT_HINT_KEYS[i]).v # <<>> }

FirstDetectable(r) == CHOOSE i \in Detectable(r) : \A j \in Detectable(r) : i <= j

\* C13: the detected event type is, unchanged, the value of the first
\* candidate key held with a non-empty string value, `unknown_event` when
\* there is none, and never the empty string.
C13_FirstNonEmptyStringUnchanged ==
    detected # NotRun =>
        /\ detected.v # <<>>
        /\ IF Detectable(one_record) = {}
           THEN detected.v = <<"u","n","k","n","o","w","n","_","e","v","e","n","t">>
           ELSE detected.v = DictGet(one_record, EVENT_HINT_KEYS[FirstDetectable(one_record)]).v

-----------------------------------------------------------------------------
(* Claims about _example_value *)

\* C14: the example of an array or a mapping is its JSON serialization when
\* that has at most 80 characters, and its first 80 characters followed by
\* the ellipsis when it has more; a null value has no example.
C14_EllipsisIffTruncated ==
    shown # NotRun =>
        /\ sample.t \in {"list", "dict"} =>
              LET dumped == JsonDumps(sample)
              IN IF Len(dumped) > 80
                 THEN shown.v = SubSeq(dumped, 1, 80) \o <<Ellipsis>>
                 ELSE shown.v = dumped
        /\ sample = Null => shown.v = NoExample

-----------------------------------------------------------------------------
(* Claims about _flatten *)

\* C15: the leaves of a record have pairwise different paths, and the
\* flattened mapping holds exactly one entry per leaf, under the leaf's path
\* and with the leaf's value.
C15_NoPathCollision ==
    flat # NotRun =>
        LET leaves == LeafList(one_record, <<>>)
        IN /\ \A i, j \in 1..Len(leaves) : leaves[i][1] = leaves[j][1] => i = j
           /\ Len(flat.v) = Len(leaves)
           /\ \A i \in 1..Len(leaves) :
                 /\ HasKey(flat.v, leaves[i][1])
                 /\ DictGet(flat.v, leaves[i][1]) = leaves[i][2]

-----------------------------------------------------------------------------
(* Claims about _select_block and _projection *)

\* C12: for a warehouse name outside the four supported ones _select_block
\* and _projection raise the unsupported-warehouse error and return no SQL
\* text, whatever the event schema, a schema without properties included.
C12_UnsupportedDialectFails ==
    dialect \notin SupportedWarehouses =>
        /\ block # NotRun => block = Raised(UnsupportedWarehouse)
        /\ projection # NotRun => projection = Raised(UnsupportedWarehouse)

====
